---- MODULE Spec2Model ----
(***************************************************************************)
(* Model of lob_event_extractor/extractor.py: the LOBEventExtractor book    *)
(* replay engine (process_snapshot, process_delta, _depth_of_price,         *)
(* _mid_price) and its two drivers (parse_file, infer_events_from_lines).   *)
(*                                                                         *)
(* Prices and volumes are the integral float values the feed carries.      *)
(* A float that is the result of a division is kept as a reduced fraction   *)
(* [nan, n, d]; NaN is a value of its own that compares unequal to every    *)
(* float, itself included.  An Optional is <<>> for None and <<x>> for x.   *)
(***************************************************************************)
EXTENDS Integers, Sequences, FiniteSets, TLC

\* ---------------------------------------------------------------- bounds
\* price ticks the feed may quote (both sides; crossed books are accepted)
Prices == {100, 101}
\* largest volume the feed quotes
MaxVol == 2
\* most (price, volume) pairs in one message, both sides together
MaxUpdates == 2
\* most messages (lines) one extractor is fed
MaxLines == 2
\* the max_depth values an extractor is constructed with
MaxDepths == {1, 2}

Vols == 0..MaxVol
Pair == Prices \X Vols

\* ------------------------------------------------------------- Optional
None == <<>>
Some(x) == <<x>>

\* --------------------------------------------------------------- floats
NaN == [nan |-> TRUE, n |-> 0, d |-> 1]

Abs(x) == IF x < 0 THEN -x ELSE x

Max2(a, b) == IF a >= b THEN a ELSE b

RECURSIVE Gcd(_, _)
Gcd(a, b) == IF b = 0 THEN a ELSE Gcd(b, a % b)

\* the float n / d (d > 0), as a reduced fraction
Div(n, d) ==
    LET g == Gcd(Abs(n), d)
    IN  [nan |-> FALSE, n |-> n \div g, d |-> d \div g]

Float(x) == [nan |-> FALSE, n |-> x, d |-> 1]

isnan(x) == x.nan

\* Python's x != y on floats: NaN differs from everything
FloatNe(x, y) == x.nan \/ y.nan \/ x # y

\* --------------------------------------------------------------- dicts
Get(dict, price) == IF price \in DOMAIN dict THEN dict[price] ELSE 0

Pop(dict, price) == [p \in DOMAIN dict \ {price} |-> dict[p]]

Put(dict, price, vol) ==
    [p \in DOMAIN dict \cup {price} |-> IF p = price THEN vol ELSE dict[p]]

EmptyDict == [p \in {} |-> 0]

\* DictOf, were the first pair for a price to win over the later ones
RECURSIVE DictOf_first_wins(_)

DictOf_first_wins(pairs) ==
    IF pairs = <<>>
    THEN EmptyDict
    ELSE Put(DictOf_first_wins(Tail(pairs)), Head(pairs)[1], Head(pairs)[2])

RECURSIVE DictOf(_)
\* {float(p): float(v) for p, v in pairs}: a later pair overwrites an earlier one
DictOf(pairs) ==
    IF pairs = <<>> THEN EmptyDict
    ELSE LET n == Len(pairs)
         IN  Put(DictOf(SubSeq(pairs, 1, n - 1)), pairs[n][1], pairs[n][2])

SetMin(S) == CHOOSE x \in S : \A y \in S : x <= y

SetMax(S) == CHOOSE x \in S : \A y \in S : x >= y

RECURSIVE Ascending(_)
Ascending(S) ==
    IF S = {} THEN <<>> ELSE <<SetMin(S)>> \o Ascending(S \ {SetMin(S)})

RECURSIVE Descending(_)
Descending(S) ==
    IF S = {} THEN <<>> ELSE <<SetMax(S)>> \o Descending(S \ {SetMax(S)})

\* ------------------------------------------------------------ extractor
\* The extractor object, as a record of its fields:
\*   [max_depth, asks, bids, sorted_asks, sorted_bids, last_mid_price]
DefaultMaxDepth == 50

RelTolInv == 1000000000

new_extractor(k) ==
    [max_depth |-> k, asks |-> EmptyDict, bids |-> EmptyDict,
     sorted_asks |-> None, sorted_bids |-> None, last_mid_price |-> None]

invalidate_sorted(self) ==
    [self EXCEPT !.sorted_asks = None, !.sorted_bids = None]

\* ensure_sorted, were it to rebuild both lists on every lookup
ensure_sorted_rebuilding(self) ==
    [self EXCEPT
        !.sorted_asks = Some(Ascending(DOMAIN self.asks)),
        !.sorted_bids = Some(Descending(DOMAIN self.bids))]

ensure_sorted(self) ==
    [self EXCEPT
        !.sorted_asks = IF @ = None THEN Some(Ascending(DOMAIN self.asks)) ELSE @,
        !.sorted_bids = IF @ = None THEN Some(Descending(DOMAIN self.bids)) ELSE @]

\* _mid_price, were it to average the lowest bid with the lowest ask
mid_price_lowest_bid(self) ==
    IF DOMAIN self.bids = {} \/ DOMAIN self.asks = {}
    THEN NaN
    ELSE Div(SetMin(DOMAIN self.bids) + SetMin(DOMAIN self.asks), 2)

mid_price(self) ==
    IF DOMAIN self.bids = {} \/ DOMAIN self.asks = {}
    THEN NaN
    ELSE Div(SetMax(DOMAIN self.bids) + SetMin(DOMAIN self.asks), 2)

\* process_snapshot, were it to leave the cached sorted views as they are
process_snapshot_keeping_cache(self, a, b) ==
    [self EXCEPT !.asks = DictOf(a), !.bids = DictOf(b)]

process_snapshot(self, a, b) ==
    invalidate_sorted([self EXCEPT !.asks = DictOf(a), !.bids = DictOf(b)])

\* math.isclose(a, b) with its defaults rel_tol = 1e-09, abs_tol = 0.0
isclose(a, b) ==
    a = b \/ Abs(a - b) <= Max2(Abs(a), Abs(b)) \div RelTolInv

\* passed, were a bid view scanned as if it were ascending
passed_ascending(p, price, side) ==
    \/ isclose(p, price)
    \/ p >= price

passed(p, price, side) ==
    \/ isclose(p, price)
    \/ side = "ask" /\ p >= price
    \/ side = "bid" /\ p <= price

RECURSIVE scan(_, _, _, _)
\* the for loop of _depth_of_price from (1-based) position i on
scan(prices, price, side, i) ==
    IF i > Len(prices) THEN Len(prices)
    ELSE IF passed(prices[i], price, side) THEN i - 1
    ELSE scan(prices, price, side, i + 1)

\* [self |-> the extractor afterwards, ret |-> the depth returned]
depth_of_price(self, price, side) ==
    LET s == ensure_sorted(self)
        prices == IF side = "ask" THEN s.sorted_asks[1] ELSE s.sorted_bids[1]
    IN  [self |-> s, ret |-> scan(prices, price, side, 1)]

LOBEvent(action, price, volume, depth, index, mid, previous_vol, vcn) ==
    [action |-> action, price |-> price, volume |-> volume, depth |-> depth,
     index |-> index, mid_price |-> mid, previous_vol |-> previous_vol,
     volume_change_normalized |-> vcn]

\* (x / prev_vol) if prev_vol > 0.0 else 1.0
normalized(x, prev_vol) == IF prev_vol > 0 THEN Div(x, prev_vol) ELSE Float(1)

\* removal_event, were it to emit nothing for a level that holds no volume
removal_event_silent(side, price, prev_vol, depth, index, mid, max_depth) ==
    LET change == 0 - prev_vol
    IN  IF depth < max_depth /\ prev_vol > 0
        THEN <<LOBEvent(IF side = "ask" THEN "market_buy" ELSE "market_sell",
                        price, -change, depth, index, mid, prev_vol,
                        normalized(change, prev_vol))>>
        ELSE <<>>

\* removal_event, were its ratio the magnitude -change / prev_vol
removal_event_magnitude(side, price, prev_vol, depth, index, mid, max_depth) ==
    LET change == 0 - prev_vol
    IN  IF depth < max_depth
        THEN <<LOBEvent(IF side = "ask" THEN "market_buy" ELSE "market_sell",
                        price, -change, depth, index, mid, prev_vol,
                        normalized(-change, prev_vol))>>
        ELSE <<>>

\* the events (none or one) of an update with vol == 0.0
removal_event(side, price, prev_vol, depth, index, mid, max_depth) ==
    LET change == 0 - prev_vol
    IN  IF depth < max_depth
        THEN <<LOBEvent(IF side = "ask" THEN "market_buy" ELSE "market_sell",
                        price, -change, depth, index, mid, prev_vol,
                        normalized(change, prev_vol))>>
        ELSE <<>>

\* resting_event, were the ratio of a cancellation the signed change / prev_vol
resting_event_signed(side, price, vol, prev_vol, depth, index, mid, max_depth) ==
    LET change == vol - prev_vol
    IN  IF depth < max_depth
        THEN IF change > 0
             THEN <<LOBEvent(IF side = "ask" THEN "sell_limit_added"
                                             ELSE "buy_limit_added",
                             price, change, depth, index, mid, prev_vol,
                             normalized(change, prev_vol))>>
             ELSE IF change < 0
             THEN <<LOBEvent(IF side = "ask" THEN "sell_limit_canceled"
                                             ELSE "buy_limit_canceled",
                             price, -change, depth, index, mid, prev_vol,
                             normalized(change, prev_vol))>>
             ELSE <<>>
        ELSE <<>>

\* resting_event, were its depth test depth <= max_depth
resting_event_inclusive(side, price, vol, prev_vol, depth, index, mid, max_depth) ==
    LET change == vol - prev_vol
    IN  IF depth <= max_depth
        THEN IF change > 0
             THEN <<LOBEvent(IF side = "ask" THEN "sell_limit_added"
                                             ELSE "buy_limit_added",
                             price, change, depth, index, mid, prev_vol,
                             normalized(change, prev_vol))>>
             ELSE IF change < 0
             THEN <<LOBEvent(IF side = "ask" THEN "sell_limit_canceled"
                                             ELSE "buy_limit_canceled",
                             price, -change, depth, index, mid, prev_vol,
                             normalized(-change, prev_vol))>>
             ELSE <<>>
        ELSE <<>>

\* the events (none or one) of an update with vol != 0.0
resting_event(side, price, vol, prev_vol, depth, index, mid, max_depth) ==
    LET change == vol - prev_vol
    IN  IF depth < max_depth
        THEN IF change > 0
             THEN <<LOBEvent(IF side = "ask" THEN "sell_limit_added"
                                             ELSE "buy_limit_added",
                             price, change, depth, index, mid, prev_vol,
                             normalized(change, prev_vol))>>
             ELSE IF change < 0
             THEN <<LOBEvent(IF side = "ask" THEN "sell_limit_canceled"
                                             ELSE "buy_limit_canceled",
                             price, -change, depth, index, mid, prev_vol,
                             normalized(-change, prev_vol))>>
             ELSE <<>>
        ELSE <<>>

\* self.asks.pop(price, None) when vol == 0.0, self.asks[price] = vol otherwise
store(dict, price, vol) ==
    IF vol = 0 THEN Pop(dict, price) ELSE Put(dict, price, vol)

\* the events (none or one) of one update: self is the extractor after the
\* depth lookup and before the update is stored
classify(self, side, price, vol, prev_vol, depth, index) ==
    IF vol = 0
    THEN removal_event(side, price, prev_vol, depth, index, mid_price(self),
                       self.max_depth)
    ELSE resting_event(side, price, vol, prev_vol, depth, index, mid_price(self),
                       self.max_depth)

\* stored, were every update written to the ask mapping
stored_asks_only(self, side, price, vol) ==
    [self EXCEPT !.asks = store(@, price, vol)]

stored(self, side, price, vol) ==
    IF side = "ask"
    THEN [self EXCEPT !.asks = store(@, price, vol)]
    ELSE [self EXCEPT !.bids = store(@, price, vol)]

\* the rest of an iteration once the depth lookup dp = [self, ret] is made;
\* marks records len(events) at the end of every iteration so far
after_lookup(st, side, price, vol, prev_vol, index, dp, evs) ==
    [self |-> stored(dp.self, side, price, vol),
     events |-> st.events \o evs,
     marks |-> Append(st.marks, Len(st.events) + Len(evs))]

classified(st, side, price, vol, prev_vol, index, dp) ==
    after_lookup(st, side, price, vol, prev_vol, index, dp,
                 classify(dp.self, side, price, vol, prev_vol, dp.ret, index))

\* update, were the bid loop to read the previous volume from self.asks
update_reading_asks(st, side, price, vol, index) ==
    classified(st, side, price, vol, Get(st.self.asks, price),
               index, depth_of_price(st.self, price, side))

\* One iteration of a loop of process_delta on st = [self, events, marks]
update(st, side, price, vol, index) ==
    classified(st, side, price, vol,
               Get(IF side = "ask" THEN st.self.asks ELSE st.self.bids, price),
               index, depth_of_price(st.self, price, side))

RECURSIVE updates(_, _, _, _)
\* a whole loop of process_delta over the pairs of one side, in input order
updates(st, side, pairs, index) ==
    IF pairs = <<>> THEN st
    ELSE updates(update(st, side, Head(pairs)[1], Head(pairs)[2], index),
                 side, Tail(pairs), index)

returned(st) ==
    [self |-> invalidate_sorted(st.self), ret |-> st.events, marks |-> st.marks]

\* process_delta raising ValueError at float(p) or float(v) of a malformed
\* entry: a and b are the entries processed before it (b is empty when the
\* malformed entry is an ask).  The extractor is left as the loops had it:
\* _invalidate_sorted is not reached and no event list is returned.
process_delta_raised(self, a, b, index) ==
    updates(updates([self |-> self, events |-> <<>>, marks |-> <<>>],
                    "ask", a, index),
            "bid", b, index).self

\* process_delta, were the bid loop to run before the ask loop
process_delta_bids_first(self, a, b, index) ==
    returned(updates(updates([self |-> self, events |-> <<>>, marks |-> <<>>],
                             "bid", b, index),
                     "ask", a, index))

\* [self |-> the extractor afterwards, ret |-> the events returned, marks]
process_delta(self, a, b, index) ==
    returned(updates(updates([self |-> self, events |-> <<>>, marks |-> <<>>],
                             "ask", a, index),
                     "bid", b, index))

\* ---------------------------------------------------------------- state
VARIABLES
    max_depth, asks, bids, sorted_asks, sorted_bids, last_mid_price,
    driver,      \* who owns the extractor: "none" (a direct caller) or a driver
    pc,          \* the driver: "running", or "raised" once an exception left it
    idx,         \* the driver: index of the next line (a direct caller: the
                 \* number of messages it has fed so far)
    mid_prices,  \* the driver: its mid_prices list
    yielded,     \* parse_file: the tuples yielded so far
    events,      \* infer_events_from_lines: its events list
    call,        \* the last call of a method: arguments, extractor before, result
    line         \* the last line of a driver: type, last_mid_price before, reported

vars == <<max_depth, asks, bids, sorted_asks, sorted_bids, last_mid_price,
          driver, pc, idx, mid_prices, yielded, events, call, line>>

extractor_vars == <<max_depth, asks, bids, sorted_asks, sorted_bids, last_mid_price>>

driver_vars == <<driver, pc, idx, mid_prices, yielded, events, line>>

Self ==
    [max_depth |-> max_depth, asks |-> asks, bids |-> bids,
     sorted_asks |-> sorted_asks, sorted_bids |-> sorted_bids,
     last_mid_price |-> last_mid_price]

Becomes(s) ==
    /\ max_depth' = s.max_depth
    /\ asks' = s.asks
    /\ bids' = s.bids
    /\ sorted_asks' = s.sorted_asks
    /\ sorted_bids' = s.sorted_bids
    /\ last_mid_price' = s.last_mid_price

Called(op, a, b, index, pre, evs, marks, ret) ==
    [op |-> op, in_asks |-> a, in_bids |-> b, index |-> index, pre |-> pre,
     events |-> evs, marks |-> marks, ret |-> ret]

Drivers == {"none", "parse_file", "infer_events_from_lines"}

\* the lists of at most n (price, volume) pairs
Lists(n) == UNION {[1..k -> Pair] : k \in 0..n}

\* the "a" and "b" lists of one message
Messages ==
    {m \in Lists(MaxUpdates) \X Lists(MaxUpdates) :
        Len(m[1]) + Len(m[2]) <= MaxUpdates}

Init ==
    /\ driver \in Drivers
    /\ max_depth \in IF driver = "infer_events_from_lines"
                     THEN {DefaultMaxDepth} ELSE MaxDepths
    /\ asks = EmptyDict
    /\ bids = EmptyDict
    /\ sorted_asks = None
    /\ sorted_bids = None
    /\ last_mid_price = None
    /\ pc = "running"
    /\ idx = 0
    /\ mid_prices = <<>>
    /\ yielded = <<>>
    /\ events = <<>>
    /\ call = Called("__init__", <<>>, <<>>, 0, new_extractor(max_depth),
                     <<>>, <<>>, 0)
    /\ line = [type |-> "none", prev_last |-> None, reported |-> FALSE]

\* ------------------------------------------------- calls by a direct caller
ProcessSnapshot(a, b) ==
    /\ driver = "none"
    /\ idx < MaxLines
    /\ Becomes(process_snapshot(Self, a, b))
    /\ call' = Called("process_snapshot", a, b, 0, Self, <<>>, <<>>, 0)
    /\ idx' = idx + 1
    /\ UNCHANGED <<driver, pc, mid_prices, yielded, events, line>>

ProcessDelta(a, b) ==
    /\ driver = "none"
    /\ idx < MaxLines
    /\ \E r \in {process_delta(Self, a, b, 0)} :
           /\ Becomes(r.self)
           /\ call' = Called("process_delta", a, b, 0, Self, r.ret, r.marks, 0)
    /\ idx' = idx + 1
    /\ UNCHANGED <<driver, pc, mid_prices, yielded, events, line>>

DepthOfPrice(price, side) ==
    /\ driver = "none"
    /\ idx < MaxLines
    /\ \E r \in {depth_of_price(Self, price, side)} :
           /\ Becomes(r.self)
           \* the price asked about is recorded in the list of its side
           /\ call' = Called("_depth_of_price",
                             IF side = "ask" THEN <<<<price, 0>>>> ELSE <<>>,
                             IF side = "bid" THEN <<<<price, 0>>>> ELSE <<>>,
                             0, Self, <<>>, <<>>, r.ret)
    /\ UNCHANGED driver_vars

\* ---------------------------------------------------------------- drivers
\* the extractor and the events after the method call a line of `type` makes
dispatch(self, type, a, b, index) ==
    IF type = "snapshot"
    THEN [self |-> process_snapshot(self, a, b), ret |-> <<>>, marks |-> <<>>]
    ELSE process_delta(self, a, b, index)

\* the test of parse_file on a recorded last_mid_price (not None)
parse_file_changed(last, mid) ==
    IF isnan(last) /\ ~isnan(mid) THEN TRUE ELSE FloatNe(last, mid)

\* the test of infer_events_from_lines
infer_changed(last, mid) == last = None \/ FloatNe(last[1], mid)

\* One iteration of the loop of parse_file.  math.isnan(None) raises TypeError:
\* the generator ends there, after the line's method call, with nothing yielded.
ParseFileLine(type, a, b) ==
    /\ driver = "parse_file"
    /\ pc = "running"
    /\ idx < MaxLines
    /\ \E r \in {dispatch(Self, type, a, b, idx)} :
       \E mid \in {mid_price(r.self)} :
       \E raises \in {r.self.last_mid_price = None} :
       \E changed \in {~raises /\ parse_file_changed(r.self.last_mid_price[1], mid)} :
           /\ call' = Called("process_" \o type, a, b, idx, Self, r.ret, r.marks, 0)
           /\ Becomes(IF changed
                      THEN [r.self EXCEPT !.last_mid_price = Some(mid)]
                      ELSE r.self)
           /\ pc' = IF raises THEN "raised" ELSE pc
           /\ idx' = IF raises THEN idx ELSE idx + 1
           /\ mid_prices' = IF changed THEN Append(mid_prices, mid) ELSE mid_prices
           /\ yielded' = IF changed THEN Append(yielded, <<idx, r.ret, mid>>)
                                    ELSE yielded
           /\ line' = [type |-> type, prev_last |-> last_mid_price,
                       reported |-> changed]
    /\ UNCHANGED <<driver, events>>

\* One iteration of the loop of infer_events_from_lines: a snapshot line
\* continues right after process_snapshot.
InferLine(type, a, b) ==
    /\ driver = "infer_events_from_lines"
    /\ pc = "running"
    /\ idx < MaxLines
    /\ \E r \in {dispatch(Self, type, a, b, idx)} :
       \E mid \in {mid_price(r.self)} :
       \E changed \in {type # "snapshot" /\ infer_changed(r.self.last_mid_price, mid)} :
           /\ call' = Called("process_" \o type, a, b, idx, Self, r.ret, r.marks, 0)
           /\ Becomes(IF changed
                      THEN [r.self EXCEPT !.last_mid_price = Some(mid)]
                      ELSE r.self)
           /\ idx' = idx + 1
           /\ mid_prices' = IF changed THEN Append(mid_prices, mid) ELSE mid_prices
           /\ events' = IF changed THEN events \o r.ret ELSE events
           /\ line' = [type |-> type, prev_last |-> last_mid_price,
                       reported |-> changed]
    /\ UNCHANGED <<driver, pc, yielded>>

LineTypes == {"snapshot", "delta"}

Next ==
    \/ \E m \in Messages : ProcessSnapshot(m[1], m[2])
    \/ \E m \in Messages : ProcessDelta(m[1], m[2])
    \/ \E price \in Prices, side \in {"ask", "bid"} : DepthOfPrice(price, side)
    \/ \E type \in LineTypes, m \in Messages : ParseFileLine(type, m[1], m[2])
    \/ \E type \in LineTypes, m \in Messages : InferLine(type, m[1], m[2])

Spec == Init /\ [][Next]_vars

\* --------------------------------------- direct calls, malformed deltas too
\* a process_delta call that raises on a malformed entry after processing
\* the entries a and b; the caller catches the error and keeps the extractor
ProcessDeltaRaises(a, b) ==
    /\ driver = "none"
    /\ idx < MaxLines
    /\ Becomes(process_delta_raised(Self, a, b, 0))
    /\ call' = Called("process_delta raised", a, b, 0, Self, <<>>, <<>>, 0)
    /\ idx' = idx + 1
    /\ UNCHANGED <<driver, pc, mid_prices, yielded, events, line>>

InitDirect == Init /\ driver = "none"

NextAbort ==
    \/ \E m \in Messages : ProcessSnapshot(m[1], m[2])
    \/ \E m \in Messages : ProcessDelta(m[1], m[2])
    \/ \E m \in Messages : ProcessDeltaRaises(m[1], m[2])
    \/ \E price \in Prices, side \in {"ask", "bid"} : DepthOfPrice(price, side)

SpecAbort == InitDirect /\ [][NextAbort]_vars

\* ------------------------------------------ depth lookups on wide prices
\* prices far apart, and two that math.isclose takes for equal
WidePrices == {100, 1000000000, 1000000001}

\* the "a" and "b" lists of a snapshot of unit volumes at these prices
WideMessages ==
    {m \in (UNION {[1..k -> WidePrices \X {1}] : k \in 0..MaxUpdates})
           \X (UNION {[1..k -> WidePrices \X {1}] : k \in 0..MaxUpdates}) :
        Len(m[1]) + Len(m[2]) <= MaxUpdates}

NextDepth ==
    \/ \E m \in WideMessages : ProcessSnapshot(m[1], m[2])
    \/ \E price \in WidePrices, side \in {"ask", "bid"} : DepthOfPrice(price, side)

SpecDepth == InitDirect /\ [][NextDepth]_vars

\* ------------------------------------------------- reading the last call
\* The definitions below describe the last process_delta call from outside:
\* they use its arguments, the extractor before it and what it returned, and
\* none of the operators that model the method.
IsDelta == call.op = "process_delta"

NumUpdates == Len(call.in_asks) + Len(call.in_bids)

\* the i-th update in processing order: the asks, then the bids
Upd(i) ==
    IF i <= Len(call.in_asks)
    THEN [side |-> "ask", price |-> call.in_asks[i][1], vol |-> call.in_asks[i][2]]
    ELSE [side |-> "bid", price |-> call.in_bids[i - Len(call.in_asks)][1],
          vol |-> call.in_bids[i - Len(call.in_asks)][2]]

\* the events appended while the i-th update was processed
EventsOf(i) ==
    SubSeq(call.events, (IF i = 1 THEN 0 ELSE call.marks[i - 1]) + 1, call.marks[i])

PreBook(side) == IF side = "ask" THEN call.pre.asks ELSE call.pre.bids

Book(side) == IF side = "ask" THEN asks ELSE bids

\* the updates among the first i that are for the same level as update j
SameLevel(j, i) ==
    {h \in 1..i : Upd(h).side = Upd(j).side /\ Upd(h).price = Upd(j).price}

Last(S) == CHOOSE x \in S : \A y \in S : y <= x

First(S) == CHOOSE x \in S : \A y \in S : x <= y

\* the volume stored at the level of update i just before update i
VolBefore(i) ==
    IF SameLevel(i, i - 1) = {}
    THEN IF Upd(i).price \in DOMAIN PreBook(Upd(i).side)
         THEN PreBook(Upd(i).side)[Upd(i).price] ELSE 0
    ELSE Upd(Last(SameLevel(i, i - 1))).vol

\* the prices held on a side once the first i updates are applied
LevelsAfter(side, i) ==
    {p \in DOMAIN PreBook(side) :
        \A h \in 1..i : ~(Upd(h).side = side /\ Upd(h).price = p)}
    \cup {Upd(h).price : h \in {g \in 1..i : /\ Upd(g).side = side
                                            /\ Upd(g).vol # 0
                                            /\ g = Last(SameLevel(g, i))}}

\* the prices of S in side order: ascending asks, descending bids
SortedView(S, side) ==
    CHOOSE seq \in [1..Cardinality(S) -> S] :
        \A i, j \in 1..Cardinality(S) :
            i < j => IF side = "ask" THEN seq[i] < seq[j] ELSE seq[i] > seq[j]

\* within the relative tolerance 1e-09 of math.isclose
Near(p, q) == Abs(p - q) <= Max2(Abs(p), Abs(q)) \div 1000000000

\* the rank of price in view: the first entry equal to it or passed by it
Rank(view, side, price) ==
    LET hits == {i \in 1..Len(view) :
                    \/ Near(view[i], price)
                    \/ IF side = "ask" THEN view[i] >= price ELSE view[i] <= price}
    IN  IF hits = {} THEN Len(view) ELSE First(hits) - 1

\* the rank of update i in the sorted view of its side before the call
PreRank(i) ==
    Rank(SortedView(DOMAIN PreBook(Upd(i).side), Upd(i).side), Upd(i).side,
         Upd(i).price)

\* m is the mid price of a book holding these bid and ask prices
MidOf(m, bidPrices, askPrices) ==
    IF bidPrices = {} \/ askPrices = {}
    THEN m.nan
    ELSE ~m.nan /\ 2 * m.n = (Last(bidPrices) + First(askPrices)) * m.d

SideOf(action) ==
    IF action \in {"market_buy", "sell_limit_added", "sell_limit_canceled"}
    THEN "ask" ELSE "bid"

\* update i is the last one of the call for its level
Final(i) == i = Last(SameLevel(i, NumUpdates))

\* the level of update i holds volume v now (is absent when v = 0)
Holds(i, v) ==
    IF v = 0
    THEN Upd(i).price \notin DOMAIN Book(Upd(i).side)
    ELSE /\ Upd(i).price \in DOMAIN Book(Upd(i).side)
         /\ Book(Upd(i).side)[Upd(i).price] = v

\* ---------------------------------------------------------------- claims
\* C1: in a process_delta call on an extractor with max_depth = k, an update
\* whose rank in the sorted view of its side before the call is >= k emits no
\* event; and if its price appears once on its side in the delta, the level
\* holds the update's volume when the call returns (is absent for volume 0).
C1_DepthFilterStillStores ==
    IsDelta =>
        \A i \in 1..NumUpdates :
            PreRank(i) >= call.pre.max_depth =>
                /\ EventsOf(i) = <<>>
                /\ SameLevel(i, NumUpdates) = {i} => Holds(i, Upd(i).vol)

\* a filtered update that changed the volume of its level
C1_Witness ==
    /\ IsDelta
    /\ \E i \in 1..NumUpdates :
        /\ PreRank(i) >= call.pre.max_depth
        /\ SameLevel(i, NumUpdates) = {i}
        /\ Upd(i).vol # VolBefore(i)
        /\ Upd(i).vol # 0
        /\ Holds(i, Upd(i).vol)

\* C2: the mid_price of every event of process_delta is the mid price of the
\* book after all earlier updates of the delta and the event's own update.
C2_MidAfterOwnUpdate ==
    IsDelta =>
        \A i \in 1..NumUpdates :
            \A n \in 1..Len(EventsOf(i)) :
                MidOf(EventsOf(i)[n].mid_price,
                      LevelsAfter("bid", i), LevelsAfter("ask", i))

\* what the method does instead: the mid price is read before the event's own
\* update is stored, after all earlier updates of the delta
MidBeforeOwnUpdate ==
    IsDelta =>
        \A i \in 1..NumUpdates :
            \A n \in 1..Len(EventsOf(i)) :
                MidOf(EventsOf(i)[n].mid_price,
                      LevelsAfter("bid", i - 1), LevelsAfter("ask", i - 1))

\* C3: the depth of every event of process_delta is the rank of its price in
\* the sorted view of its side as the book stood before the call, whatever
\* earlier updates of the same delta did; when the call has returned both
\* cached views are stale (None).
C3_DepthFromPreCallView ==
    IsDelta =>
        /\ \A i \in 1..NumUpdates :
            \A n \in 1..Len(EventsOf(i)) : EventsOf(i)[n].depth = PreRank(i)
        /\ sorted_asks = None
        /\ sorted_bids = None

\* an event whose depth differs from its rank in the book as it stood just
\* before its own update
C3_Witness ==
    /\ IsDelta
    /\ \E i \in 2..NumUpdates :
        /\ EventsOf(i) # <<>>
        /\ EventsOf(i)[1].depth = PreRank(i)
        /\ EventsOf(i)[1].depth #
               Rank(SortedView(LevelsAfter(Upd(i).side, i - 1), Upd(i).side),
                    Upd(i).side, Upd(i).price)

\* C4 as stated: previous_vol of every event is the volume stored at its level
\* when the call began (0 if absent), also when the price is repeated.
C4_PreviousVolIsPreCall ==
    IsDelta =>
        \A i \in 1..NumUpdates :
            \A n \in 1..Len(EventsOf(i)) :
                EventsOf(i)[n].previous_vol =
                    IF Upd(i).price \in DOMAIN PreBook(Upd(i).side)
                    THEN PreBook(Upd(i).side)[Upd(i).price] ELSE 0

\* C4 amended: previous_vol of every event is the volume stored at its level
\* just before its own update (0 if absent then): the volume of the last
\* earlier update of the same delta to that level, or else the volume when
\* the call began.
C4_PreviousVolIsCurrent ==
    IsDelta =>
        \A i \in 1..NumUpdates :
            \A n \in 1..Len(EventsOf(i)) :
                EventsOf(i)[n].previous_vol = VolBefore(i)

\* a repeated price whose second update reports the volume the first one set
C4_Witness ==
    /\ IsDelta
    /\ \E i \in 2..NumUpdates :
        /\ SameLevel(i, i - 1) # {}
        /\ EventsOf(i) # <<>>
        /\ EventsOf(i)[1].previous_vol = VolBefore(i)
        /\ VolBefore(i) # Get(PreBook(Upd(i).side), Upd(i).price)

\* C5: neither mapping ever holds a price with stored volume 0.
C5_NoZeroLevel ==
    /\ \A p \in DOMAIN asks : asks[p] # 0
    /\ \A p \in DOMAIN bids : bids[p] # 0

\* C6: in the drivers, when the last recorded mid observation is NaN and the
\* mid observation after the current line is NaN too, the line reports no
\* change and last_mid_price is left as it was.
C6_InvalidToInvalidSilent ==
    ( /\ driver # "none"
      /\ line.type # "none"
      /\ line.prev_last # None
      /\ line.prev_last[1].nan
      /\ (DOMAIN asks = {} \/ DOMAIN bids = {}) )
    => (~line.reported /\ last_mid_price = line.prev_last)

\* C7: on the first line of its input (last_mid_price never recorded)
\* parse_file yields (index, events, mid) and records that mid.
C7_FirstObservationReported ==
    (driver = "parse_file" /\ line.type # "none" /\ line.prev_last = None)
    => /\ line.reported
       /\ pc = "running"
       /\ Len(yielded) = 1
       /\ last_mid_price # None
       /\ MidOf(last_mid_price[1], DOMAIN bids, DOMAIN asks)

\* C8: the events process_delta returns follow the updates: every event
\* belongs to an update of its side and price, ask updates before bid updates
\* and each side in input order, and no update has more than one event.
C8_EventOrder ==
    IsDelta =>
        /\ \E f \in [1..Len(call.events) -> 1..NumUpdates] :
            /\ \A m, n \in 1..Len(call.events) : m < n => f[m] < f[n]
            /\ \A n \in 1..Len(call.events) :
                /\ SideOf(call.events[n].action) = Upd(f[n]).side
                /\ call.events[n].price = Upd(f[n]).price
        /\ \A i \in 1..NumUpdates :
            /\ Len(EventsOf(i)) <= 1
            /\ \A n \in 1..Len(EventsOf(i)) :
                /\ SideOf(EventsOf(i)[n].action) = Upd(i).side
                /\ EventsOf(i)[n].price = Upd(i).price

\* a delta with an ask and a bid update that both emit
C8_Witness ==
    /\ IsDelta
    /\ call.in_asks # <<>>
    /\ call.in_bids # <<>>
    /\ Len(call.events) = 2
    /\ SideOf(call.events[1].action) = "ask"
    /\ SideOf(call.events[2].action) = "bid"

\* C9: an update with new volume 0 and depth < max_depth emits exactly one
\* event, market_buy (ask) or market_sell (bid), whose volume is the volume
\* stored at the level just before the update and whose
\* volume_change_normalized is -1 when that volume is > 0; the level is gone
\* (when the call returns, unless a later update of the delta sets it again).
C9_RemovalEvent ==
    IsDelta =>
        \A i \in 1..NumUpdates :
            (Upd(i).vol = 0 /\ PreRank(i) < call.pre.max_depth) =>
                /\ Len(EventsOf(i)) = 1
                /\ EventsOf(i)[1].action =
                       (IF Upd(i).side = "ask" THEN "market_buy" ELSE "market_sell")
                /\ EventsOf(i)[1].price = Upd(i).price
                /\ EventsOf(i)[1].volume = VolBefore(i)
                /\ VolBefore(i) > 0 =>
                       /\ ~EventsOf(i)[1].volume_change_normalized.nan
                       /\ EventsOf(i)[1].volume_change_normalized.n =
                              -EventsOf(i)[1].volume_change_normalized.d
                /\ Final(i) => Holds(i, 0)

\* a level with volume that an update removes, with its event
C9_Witness ==
    /\ IsDelta
    /\ \E i \in 1..NumUpdates :
        /\ Upd(i).vol = 0
        /\ VolBefore(i) > 0
        /\ PreRank(i) < call.pre.max_depth
        /\ EventsOf(i) # <<>>
        /\ Holds(i, 0)

\* C10: an update with new volume > 0 and depth < max_depth, with change =
\* new volume - the volume stored at the level just before the update: for
\* change > 0 exactly one sell_limit_added / buy_limit_added with volume =
\* change; for change < 0 exactly one sell_limit_canceled / buy_limit_canceled
\* with volume = -change and volume_change_normalized = -change / previous
\* volume > 0; for change = 0 no event.  The level then holds the new volume
\* (when the call returns, unless a later update of the delta sets it again).
C10_RestingEvent ==
    IsDelta =>
        \A i \in 1..NumUpdates :
            (Upd(i).vol > 0 /\ PreRank(i) < call.pre.max_depth) =>
                /\ Upd(i).vol > VolBefore(i) =>
                    /\ Len(EventsOf(i)) = 1
                    /\ EventsOf(i)[1].action =
                           (IF Upd(i).side = "ask" THEN "sell_limit_added"
                                                   ELSE "buy_limit_added")
                    /\ EventsOf(i)[1].volume = Upd(i).vol - VolBefore(i)
                /\ Upd(i).vol < VolBefore(i) =>
                    /\ Len(EventsOf(i)) = 1
                    /\ EventsOf(i)[1].action =
                           (IF Upd(i).side = "ask" THEN "sell_limit_canceled"
                                                   ELSE "buy_limit_canceled")
                    /\ EventsOf(i)[1].volume = VolBefore(i) - Upd(i).vol
                    /\ ~EventsOf(i)[1].volume_change_normalized.nan
                    /\ EventsOf(i)[1].volume_change_normalized.n > 0
                    /\ EventsOf(i)[1].volume_change_normalized.n * VolBefore(i) =
                           (VolBefore(i) - Upd(i).vol)
                               * EventsOf(i)[1].volume_change_normalized.d
                /\ Upd(i).vol = VolBefore(i) => EventsOf(i) = <<>>
                /\ Final(i) => Holds(i, Upd(i).vol)

\* a level whose volume an update lowers without removing it, with its event
C10_Witness ==
    /\ IsDelta
    /\ \E i \in 1..NumUpdates :
        /\ Upd(i).vol > 0
        /\ Upd(i).vol < VolBefore(i)
        /\ PreRank(i) < call.pre.max_depth
        /\ EventsOf(i) # <<>>
        /\ Holds(i, Upd(i).vol)

\* update i removes (new volume 0) a price its side does not hold just before it
RemovesAbsent(i) ==
    /\ Upd(i).vol = 0
    /\ Upd(i).price \notin LevelsAfter(Upd(i).side, i - 1)

\* C11: an update with new volume 0 for a price not present on its side, whose
\* insertion rank is < max_depth, still emits one market_buy / market_sell
\* event with volume 0, previous_vol 0 and volume_change_normalized 1.0; it
\* leaves the book as it was (a delta made only of such updates returns with
\* both mappings unchanged).
C11_RemovalOfAbsentLevel ==
    IsDelta =>
        /\ \A i \in 1..NumUpdates :
            (RemovesAbsent(i) /\ PreRank(i) < call.pre.max_depth) =>
                /\ Len(EventsOf(i)) = 1
                /\ EventsOf(i)[1].action =
                       (IF Upd(i).side = "ask" THEN "market_buy" ELSE "market_sell")
                /\ EventsOf(i)[1].price = Upd(i).price
                /\ EventsOf(i)[1].volume = 0
                /\ EventsOf(i)[1].previous_vol = 0
                /\ ~EventsOf(i)[1].volume_change_normalized.nan
                /\ EventsOf(i)[1].volume_change_normalized.n =
                       EventsOf(i)[1].volume_change_normalized.d
                /\ Final(i) => Holds(i, 0)
        /\ (\A i \in 1..NumUpdates : RemovesAbsent(i)) =>
                (asks = call.pre.asks /\ bids = call.pre.bids)

\* a non-empty book from which a delta removes a price it does not hold
C11_Witness ==
    /\ IsDelta
    /\ NumUpdates > 0
    /\ DOMAIN call.pre.asks # {}
    /\ \A i \in 1..NumUpdates :
        RemovesAbsent(i) /\ PreRank(i) < call.pre.max_depth /\ EventsOf(i) # <<>>
    /\ asks = call.pre.asks
    /\ bids = call.pre.bids

IsSnapshot == call.op = "process_snapshot"

\* the mapping holds exactly the prices of pairs, each with the volume of its
\* last occurrence in pairs
BuiltFrom(dict, pairs) ==
    /\ DOMAIN dict = {pairs[i][1] : i \in 1..Len(pairs)}
    /\ \A i \in 1..Len(pairs) :
        (\A j \in (i + 1)..Len(pairs) : pairs[j][1] # pairs[i][1]) =>
            dict[pairs[i][1]] = pairs[i][2]

\* C12: after process_snapshot(asks, bids), whatever the book held before, the
\* ask and bid mappings hold exactly the prices of the respective input lists,
\* each with the volume of its last occurrence, and both cached sorted views
\* are stale (None).
C12_SnapshotReplaces ==
    IsSnapshot =>
        /\ BuiltFrom(asks, call.in_asks)
        /\ BuiltFrom(bids, call.in_bids)
        /\ sorted_asks = None
        /\ sorted_bids = None

\* a snapshot that names a price twice with different volumes, on a book that
\* held a bid and a cached ask view, neither of which it keeps
C12_Witness ==
    /\ IsSnapshot
    /\ Len(call.in_asks) = 2
    /\ call.in_asks[1][1] = call.in_asks[2][1]
    /\ call.in_asks[1][2] # call.in_asks[2][2]
    /\ asks[call.in_asks[2][1]] = call.in_asks[2][2]
    /\ DOMAIN call.pre.bids # {}
    /\ call.pre.sorted_asks # None
    /\ DOMAIN bids = {}

\* C13: immediately after any process_snapshot call, for each side that is not
\* empty, _depth_of_price of that side's best price (minimum ask, maximum bid)
\* is 0.
C13_BestPriceRankZero ==
    IsSnapshot =>
        /\ DOMAIN asks # {} =>
               depth_of_price(Self, First(DOMAIN asks), "ask").ret = 0
        /\ DOMAIN bids # {} =>
               depth_of_price(Self, Last(DOMAIN bids), "bid").ret = 0

\* a snapshot onto a book whose cached ask view started at a better price than
\* the new best ask; both sides are non-empty afterwards
C13_Witness ==
    /\ IsSnapshot
    /\ DOMAIN asks # {}
    /\ DOMAIN bids # {}
    /\ call.pre.sorted_asks # None
    /\ call.pre.sorted_asks[1] # <<>>
    /\ call.pre.sorted_asks[1][1] < First(DOMAIN asks)
    /\ depth_of_price(Self, First(DOMAIN asks), "ask").ret = 0
    /\ depth_of_price(Self, Last(DOMAIN bids), "bid").ret = 0

\* C14: in every reachable state _mid_price returns (maximum bid price +
\* minimum ask price) / 2 when both sides hold a level and NaN exactly when a
\* side is empty, a crossed book included; the observation a driver has just
\* recorded is that value.
C14_MidPrice ==
    /\ MidOf(mid_price(Self), DOMAIN bids, DOMAIN asks)
    /\ (driver # "none" /\ line.reported) =>
           /\ last_mid_price # None
           /\ MidOf(last_mid_price[1], DOMAIN bids, DOMAIN asks)

\* a crossed book (best bid above best ask) whose mid price a driver recorded
C14_Witness ==
    /\ driver = "infer_events_from_lines"
    /\ line.reported
    /\ DOMAIN bids = Prices
    /\ DOMAIN asks # {}
    /\ Last(DOMAIN bids) > First(DOMAIN asks)
    /\ ~mid_price(Self).nan
    /\ last_mid_price = Some(mid_price(Self))

\* the observation for a book with these prices differs from the recorded one
ObservationChanged(recorded, bidPrices, askPrices) ==
    recorded = None \/ ~MidOf(recorded[1], bidPrices, askPrices)

\* C15: in the drivers, after every line of either type the mid observation is
\* compared with the last recorded one; exactly when it has changed it is
\* recorded and the line is surfaced with its events, otherwise the recorded
\* observation stays; the generator of parse_file keeps running.
C15_EveryLineCompared ==
    (driver # "none" /\ line.type # "none") =>
        /\ line.reported <=>
               ObservationChanged(line.prev_last, DOMAIN bids, DOMAIN asks)
        /\ line.reported =>
               /\ last_mid_price # None
               /\ MidOf(last_mid_price[1], DOMAIN bids, DOMAIN asks)
               /\ driver = "parse_file" =>
                      /\ yielded # <<>>
                      /\ yielded[Len(yielded)][2] = call.events
        /\ ~line.reported => last_mid_price = line.prev_last
        /\ pc = "running"

IsDepth == call.op = "_depth_of_price"

DepthSide == IF call.in_asks # <<>> THEN "ask" ELSE "bid"

DepthPrice == IF call.in_asks # <<>> THEN call.in_asks[1][1] ELSE call.in_bids[1][1]

\* the sorted view the lookup scanned
DepthView == IF DepthSide = "ask" THEN sorted_asks[1] ELSE sorted_bids[1]

\* the entries of the view strictly better than the price asked about
StrictlyBetter ==
    {i \in 1..Len(DepthView) :
        IF DepthSide = "ask" THEN DepthView[i] < DepthPrice
                             ELSE DepthView[i] > DepthPrice}

\* the prices of the view are pairwise further apart than the tolerance
PairwiseApart ==
    \A i, j \in 1..Len(DepthView) : i # j => ~Near(DepthView[i], DepthView[j])

\* the price asked about is in the view, or further than the tolerance from
\* every price of the view
PriceDistinct ==
    \/ \E i \in 1..Len(DepthView) : DepthView[i] = DepthPrice
    \/ \A i \in 1..Len(DepthView) : ~Near(DepthView[i], DepthPrice)

C18_CacheStaleOrCurrent ==
    /\ sorted_asks \in {None, Some(SortedView(DOMAIN asks, "ask"))}
    /\ sorted_bids \in {None, Some(SortedView(DOMAIN bids, "bid"))}

\* the update list process_delta was given for a side
InputOf(side) == IF side = "ask" THEN call.in_asks ELSE call.in_bids

\* the prices the update list of a side names
Named(side) == {InputOf(side)[i][1] : i \in 1..Len(InputOf(side))}

\* C19: process_delta changes the stored volume only at (side, price) pairs of
\* its input lists: every other level of both sides keeps its presence and its
\* volume, and a side whose update list is empty is left exactly as it was;
\* neither process_delta nor process_snapshot changes last_mid_price or
\* max_depth, whether looked at after a direct call or applied to the current
\* state with the arguments of the last call.
C19_Frame ==
    /\ IsDelta =>
        \A side \in {"ask", "bid"} :
            /\ \A p \in (DOMAIN PreBook(side) \cup DOMAIN Book(side)) \ Named(side) :
                /\ p \in DOMAIN PreBook(side)
                /\ p \in DOMAIN Book(side)
                /\ Book(side)[p] = PreBook(side)[p]
            /\ InputOf(side) = <<>> => Book(side) = PreBook(side)
    /\ (driver = "none" /\ (IsDelta \/ IsSnapshot)) =>
        /\ last_mid_price = call.pre.last_mid_price
        /\ max_depth = call.pre.max_depth
    /\ \A x \in {process_delta(Self, call.in_asks, call.in_bids, 0).self,
                 process_snapshot(Self, call.in_asks, call.in_bids)} :
        /\ x.last_mid_price = last_mid_price
        /\ x.max_depth = max_depth

\* a delta with ask updates only, on a book with bids and with an ask level
\* the delta does not name, made by a driver that had recorded a mid price
C19_Witness ==
    /\ IsDelta
    /\ driver = "infer_events_from_lines"
    /\ line.prev_last # None
    /\ call.in_asks # <<>>
    /\ call.in_bids = <<>>
    /\ DOMAIN call.pre.bids # {}
    /\ bids = call.pre.bids
    /\ DOMAIN call.pre.asks \ Named("ask") # {}
    /\ asks # call.pre.asks

====
